---- MODULE Spec2Model ----
(***************************************************************************)
(* Model of src/app.py: one Map (spaces, hallways, id counters, schedule), *)
(* the Snapper find_or_create_space_at, build_graph, the Dijkstra engine,  *)
(* the /spaces, /hallways and /route handlers and compute_congestion.      *)
(*                                                                         *)
(* Coordinates are integers on a grid of 0.01 normalized units, so the     *)
(* default snapping threshold 0.03 is 3.  math.sqrt is modelled by a       *)
(* fixed-point integer square root (SqrtScale digits), None by 0 (no id is *)
(* ever 0: the counters start at 1) and math.inf by a number larger than   *)
(* any path weight.  Names of spaces and hallways play no part in the      *)
(* core and are left out of the records.                                   *)
(***************************************************************************)
EXTENDS Integers, Sequences, FiniteSets, TLC

\* The Map (one entry of MAPS), the request body of a /congestion call in
\* flight (req), the last response (resp), the ids handed out so far, and
\* the handlers that run at the same time on the threads of the server
\* (threads: for each its request, its position and its local variables;
\* empty where the requests are served one after the other).
VARIABLES spaces, hallways, next_space_id, next_hallway_id,
          period_names, student_schedules,
          req, resp, space_ids_issued, hallway_ids_issued, threads

vars == <<spaces, hallways, next_space_id, next_hallway_id,
          period_names, student_schedules,
          req, resp, space_ids_issued, hallway_ids_issued, threads>>

\* ------------------------------------------------------------------ bounds
\* Largest space id / hallway id the model hands out.
MaxSpaceId == 3
MaxHallwayId == 2

\* Points a request's coordinates are drawn from (grid units of 0.01).
Points == {<<0, 0>>, <<3, 0>>, <<4, 2>>}

\* ------------------------------------------------------- program constants
Threshold == 3
None == 0
inf == 1000000
SqrtScale == 100

\* ------------------------------------------------------------------ helpers
RECURSIVE SqrtIter(_, _)
SqrtIter(n, x) ==
    LET y == (x + n \div x) \div 2
    IN IF y >= x THEN x ELSE SqrtIter(n, y)

\* math.sqrt, to two decimal digits: floor(SqrtScale * sqrt(n)).
Sqrt(n) == IF n = 0 THEN 0 ELSE SqrtIter(n * SqrtScale * SqrtScale, n * SqrtScale * SqrtScale)

NoSpace == [id |-> None, type |-> "None", x |-> 0, y |-> 0]

RECURSIVE GetSpaceFrom(_, _, _)
GetSpaceFrom(sp, space_id, i) ==
    IF i > Len(sp) THEN NoSpace
    ELSE IF sp[i].id = space_id THEN sp[i]
    ELSE GetSpaceFrom(sp, space_id, i + 1)

get_space_by_id(sp, space_id) == GetSpaceFrom(sp, space_id, 1)

NewIntersection(nsid, x, y) == [id |-> nsid, type |-> "Intersection", x |-> x, y |-> y]

\* The scan with "<=" for "<" in its comparison (line 235): among spaces at
\* the same distance the last one wins.
RECURSIVE NearestScan_LastWins(_, _, _, _, _, _)
NearestScan_LastWins(sp, x, y, i, best_idx, best_dist_sq) ==
    IF i > Len(sp) THEN [idx |-> best_idx, d_sq |-> best_dist_sq]
    ELSE LET dx == sp[i].x - x
             dy == sp[i].y - y
             d_sq == dx * dx + dy * dy
         IN IF best_idx = 0 \/ d_sq <= best_dist_sq
            THEN NearestScan_LastWins(sp, x, y, i + 1, i, d_sq)
            ELSE NearestScan_LastWins(sp, x, y, i + 1, best_idx, best_dist_sq)

\* The scan of find_or_create_space_at: index of the first space at minimum
\* squared distance (0 when there is none), with that squared distance.
RECURSIVE NearestScan(_, _, _, _, _, _)
NearestScan(sp, x, y, i, best_idx, best_dist_sq) ==
    IF i > Len(sp) THEN [idx |-> best_idx, d_sq |-> best_dist_sq]
    ELSE LET dx == sp[i].x - x
             dy == sp[i].y - y
             d_sq == dx * dx + dy * dy
         IN IF best_idx = 0 \/ d_sq < best_dist_sq
            THEN NearestScan(sp, x, y, i + 1, i, d_sq)
            ELSE NearestScan(sp, x, y, i + 1, best_idx, best_dist_sq)

\* find_or_create_space_at without the increment of next_space_id after the
\* scan (line 247).
find_or_create_space_at_NoIncrement(sp, nsid, x, y, threshold) ==
    IF sp = <<>>
    THEN [spaces |-> <<NewIntersection(nsid, x, y)>>,
          next_space_id |-> nsid + 1,
          space |-> NewIntersection(nsid, x, y),
          created |-> TRUE]
    ELSE LET best == NearestScan(sp, x, y, 1, 0, 0)
         IN IF best.idx = 0 \/ Sqrt(best.d_sq) > threshold * SqrtScale
            THEN [spaces |-> Append(sp, NewIntersection(nsid, x, y)),
                  next_space_id |-> nsid,
                  space |-> NewIntersection(nsid, x, y),
                  created |-> TRUE]
            ELSE [spaces |-> sp,
                  next_space_id |-> nsid,
                  space |-> sp[best.idx],
                  created |-> FALSE]

\* find_or_create_space_at without the append of the new space (line 248).
find_or_create_space_at_NoAppend(sp, nsid, x, y, threshold) ==
    IF sp = <<>>
    THEN [spaces |-> <<NewIntersection(nsid, x, y)>>,
          next_space_id |-> nsid + 1,
          space |-> NewIntersection(nsid, x, y),
          created |-> TRUE]
    ELSE LET best == NearestScan(sp, x, y, 1, 0, 0)
         IN IF best.idx = 0 \/ Sqrt(best.d_sq) > threshold * SqrtScale
            THEN [spaces |-> sp,
                  next_space_id |-> nsid + 1,
                  space |-> NewIntersection(nsid, x, y),
                  created |-> TRUE]
            ELSE [spaces |-> sp,
                  next_space_id |-> nsid,
                  space |-> sp[best.idx],
                  created |-> FALSE]

\* find_or_create_space_at: the Map's spaces and counter afterwards, the
\* space returned, and whether it was created.
find_or_create_space_at(sp, nsid, x, y, threshold) ==
    IF sp = <<>>
    THEN [spaces |-> <<NewIntersection(nsid, x, y)>>,
          next_space_id |-> nsid + 1,
          space |-> NewIntersection(nsid, x, y),
          created |-> TRUE]
    ELSE LET best == NearestScan(sp, x, y, 1, 0, 0)
         IN IF best.idx = 0 \/ Sqrt(best.d_sq) > threshold * SqrtScale
            THEN [spaces |-> Append(sp, NewIntersection(nsid, x, y)),
                  next_space_id |-> nsid + 1,
                  space |-> NewIntersection(nsid, x, y),
                  created |-> TRUE]
            ELSE [spaces |-> sp,
                  next_space_id |-> nsid,
                  space |-> sp[best.idx],
                  created |-> FALSE]

\* --------------------------------------------------------------- the graph
SpaceIds(sp) == {sp[i].id : i \in 1..Len(sp)}

\* build_graph without the arc from s2 back to s1 (line 281).
RECURSIVE BuildFrom_OneWay(_, _, _, _)
BuildFrom_OneWay(sp, hw, k, graph) ==
    IF k > Len(hw) THEN graph
    ELSE LET h == hw[k]
             s1 == get_space_by_id(sp, h.from_space_id)
             s2 == get_space_by_id(sp, h.to_space_id)
         IN IF s1 = NoSpace \/ s2 = NoSpace
            THEN BuildFrom_OneWay(sp, hw, k + 1, graph)
            ELSE LET dx == s1.x - s2.x
                     dy == s1.y - s2.y
                     dist == Sqrt(dx * dx + dy * dy)
                     g1 == [graph EXCEPT ![s1.id] = Append(@, <<s2.id, dist, h.id>>)]
                 IN BuildFrom_OneWay(sp, hw, k + 1, g1)

\* build_graph: graph[space_id] = sequence of <<neighbor, distance, hallway_id>>,
\* in hallway order; a hallway with an unresolved endpoint is skipped.
RECURSIVE BuildFrom(_, _, _, _)
BuildFrom(sp, hw, k, graph) ==
    IF k > Len(hw) THEN graph
    ELSE LET h == hw[k]
             s1 == get_space_by_id(sp, h.from_space_id)
             s2 == get_space_by_id(sp, h.to_space_id)
         IN IF s1 = NoSpace \/ s2 = NoSpace
            THEN BuildFrom(sp, hw, k + 1, graph)
            ELSE LET dx == s1.x - s2.x
                     dy == s1.y - s2.y
                     dist == Sqrt(dx * dx + dy * dy)
                     g1 == [graph EXCEPT ![s1.id] = Append(@, <<s2.id, dist, h.id>>)]
                     g2 == [g1 EXCEPT ![s2.id] = Append(@, <<s1.id, dist, h.id>>)]
                 IN BuildFrom(sp, hw, k + 1, g2)

build_graph(sp, hw) == BuildFrom(sp, hw, 1, [sid \in SpaceIds(sp) |-> <<>>])

\* A pop of the greatest tuple instead of the least (a list used as a stack
\* where line 303 pops the heap).
HeapMin_Greatest(heap) ==
    CHOOSE t \in heap : \A o \in heap : t[1] > o[1] \/ (t[1] = o[1] /\ t[2] >= o[2])

\* heapq.heappop on (distance, space id) tuples: the least tuple.
HeapMin(heap) ==
    CHOOSE t \in heap : \A o \in heap : t[1] < o[1] \/ (t[1] = o[1] /\ t[2] <= o[2])

\* The relaxation loop over graph[u], from its i-th entry on.
RECURSIVE Relax(_, _, _, _, _)
Relax(adj, i, current_dist, u, st) ==
    IF i > Len(adj) THEN st
    ELSE LET v == adj[i][1]
             alt == current_dist + adj[i][2]
         IN IF alt < st.dist[v]
            THEN Relax(adj, i + 1, current_dist, u,
                       [dist |-> [st.dist EXCEPT ![v] = alt],
                        prev |-> [st.prev EXCEPT ![v] = u],
                        prev_edge |-> [st.prev_edge EXCEPT ![v] = adj[i][3]],
                        heap |-> st.heap \cup {<<alt, v>>}])
            ELSE Relax(adj, i + 1, current_dist, u, st)

\* The main loop of dijkstra_shortest_path.
RECURSIVE DijkstraLoop(_, _, _)
DijkstraLoop(graph, end_id, st) ==
    IF st.heap = {} THEN st
    ELSE LET top == HeapMin(st.heap)
             popped == [st EXCEPT !.heap = @ \ {top}]
         IN IF top[1] > st.dist[top[2]] THEN DijkstraLoop(graph, end_id, popped)
            ELSE IF top[2] = end_id THEN popped
            ELSE DijkstraLoop(graph, end_id,
                              Relax(graph[top[2]], 1, top[1], top[2], popped))

\* The walk along prev without the reverse() of line 327: the path runs from
\* end_id to start_id.
RECURSIVE WalkBack_NoReverse(_, _, _)
WalkBack_NoReverse(prev, current, path) ==
    IF current = None THEN path
    ELSE WalkBack_NoReverse(prev, prev[current], path \o <<current>>)

\* The walk along prev from end_id, already reversed.
RECURSIVE WalkBack(_, _, _)
WalkBack(prev, current, path) ==
    IF current = None THEN path
    ELSE WalkBack(prev, prev[current], <<current>> \o path)

RECURSIVE EdgesOf(_, _, _)
EdgesOf(prev_edge, space_path, i) ==
    IF i > Len(space_path) THEN <<>>
    ELSE (IF prev_edge[space_path[i]] # None
          THEN <<prev_edge[space_path[i]]>> ELSE <<>>)
         \o EdgesOf(prev_edge, space_path, i + 1)

\* (None, None)
Unreachable == [found |-> FALSE, space_path |-> <<>>, hallway_path |-> <<>>]

\* dijkstra_shortest_path deciding "unreachable" by prev[end_id] is None
\* instead of dist[end_id] == math.inf (line 317).
dijkstra_shortest_path_PrevTest(sp, hw, start_id, end_id) ==
    LET graph == build_graph(sp, hw)
    IN IF start_id \notin DOMAIN graph \/ end_id \notin DOMAIN graph
       THEN Unreachable
       ELSE LET st0 == [dist |-> [sid \in DOMAIN graph |->
                                     IF sid = start_id THEN 0 ELSE inf],
                        prev |-> [sid \in DOMAIN graph |-> None],
                        prev_edge |-> [sid \in DOMAIN graph |-> None],
                        heap |-> {<<0, start_id>>}]
                st == DijkstraLoop(graph, end_id, st0)
            IN IF st.prev[end_id] = None
               THEN Unreachable
               ELSE LET space_path == WalkBack(st.prev, end_id, <<>>)
                    IN [found |-> TRUE,
                        space_path |-> space_path,
                        hallway_path |-> EdgesOf(st.prev_edge, space_path, 2)]

dijkstra_shortest_path(sp, hw, start_id, end_id) ==
    LET graph == build_graph(sp, hw)
    IN IF start_id \notin DOMAIN graph \/ end_id \notin DOMAIN graph
       THEN Unreachable
       ELSE LET st0 == [dist |-> [sid \in DOMAIN graph |->
                                     IF sid = start_id THEN 0 ELSE inf],
                        prev |-> [sid \in DOMAIN graph |-> None],
                        prev_edge |-> [sid \in DOMAIN graph |-> None],
                        heap |-> {<<0, start_id>>}]
                st == DijkstraLoop(graph, end_id, st0)
            IN IF st.dist[end_id] = inf
               THEN Unreachable
               ELSE LET space_path == WalkBack(st.prev, end_id, <<>>)
                    IN [found |-> TRUE,
                        space_path |-> space_path,
                        hallway_path |-> EdgesOf(st.prev_edge, space_path, 2)]

\* POST /route without the start_id == end_id case (lines 775-781).
RouteResponse_NoIdentityCase(sp, hw, start_id, end_id) ==
    IF get_space_by_id(sp, start_id) = NoSpace \/ get_space_by_id(sp, end_id) = NoSpace
    THEN [op |-> "route", from_space_id |-> start_id, to_space_id |-> end_id,
          status |-> 400, space_ids |-> <<>>, hallway_ids |-> <<>>, engine |-> FALSE]
    ELSE LET r == dijkstra_shortest_path(sp, hw, start_id, end_id)
         IN IF ~r.found
            THEN [op |-> "route", from_space_id |-> start_id, to_space_id |-> end_id,
                  status |-> 404, space_ids |-> <<>>, hallway_ids |-> <<>>,
                  engine |-> TRUE]
            ELSE [op |-> "route", from_space_id |-> start_id, to_space_id |-> end_id,
                  status |-> 200, space_ids |-> r.space_path,
                  hallway_ids |-> r.hallway_path, engine |-> TRUE]

\* POST /route: the response, and whether dijkstra_shortest_path was called.
RouteResponse(sp, hw, start_id, end_id) ==
    IF get_space_by_id(sp, start_id) = NoSpace \/ get_space_by_id(sp, end_id) = NoSpace
    THEN [op |-> "route", from_space_id |-> start_id, to_space_id |-> end_id,
          status |-> 400, space_ids |-> <<>>, hallway_ids |-> <<>>, engine |-> FALSE]
    ELSE IF start_id = end_id
    THEN [op |-> "route", from_space_id |-> start_id, to_space_id |-> end_id,
          status |-> 200, space_ids |-> <<start_id>>, hallway_ids |-> <<>>,
          engine |-> FALSE]
    ELSE LET r == dijkstra_shortest_path(sp, hw, start_id, end_id)
         IN IF ~r.found
            THEN [op |-> "route", from_space_id |-> start_id, to_space_id |-> end_id,
                  status |-> 404, space_ids |-> <<>>, hallway_ids |-> <<>>,
                  engine |-> TRUE]
            ELSE [op |-> "route", from_space_id |-> start_id, to_space_id |-> end_id,
                  status |-> 200, space_ids |-> r.space_path,
                  hallway_ids |-> r.hallway_path, engine |-> TRUE]

\* ------------------------------------------------------------------ state
Init ==
    /\ spaces = <<>>
    /\ hallways = <<>>
    /\ next_space_id = 1
    /\ next_hallway_id = 1
    /\ period_names = <<>>
    /\ student_schedules = <<>>
    /\ req = [op |-> "none"]
    /\ threads = <<>>
    /\ resp = [op |-> "none"]
    /\ space_ids_issued = <<>>
    /\ hallway_ids_issued = <<>>

\* POST /spaces
add_space(stype, x, y) ==
    /\ next_space_id <= MaxSpaceId
    /\ LET space == [id |-> next_space_id, type |-> stype, x |-> x, y |-> y]
       IN /\ next_space_id' = next_space_id + 1
          /\ spaces' = Append(spaces, space)
          /\ space_ids_issued' = Append(space_ids_issued, space.id)
          /\ resp' = [op |-> "add_space", status |-> 200, space |-> space]
    /\ UNCHANGED <<threads, req, hallways, next_hallway_id, period_names, student_schedules,
                   hallway_ids_issued>>

\* POST /hallways
add_hallway(x1, y1, x2, y2) ==
    LET r1 == find_or_create_space_at(spaces, next_space_id, x1, y1, Threshold)
        r2 == find_or_create_space_at(r1.spaces, r1.next_space_id, x2, y2, Threshold)
        s1 == r1.space
        s2 == r2.space
        hallway == [id |-> next_hallway_id,
                    x1 |-> s1.x, y1 |-> s1.y, x2 |-> s2.x, y2 |-> s2.y,
                    from_space_id |-> s1.id, to_space_id |-> s2.id]
    IN /\ next_hallway_id <= MaxHallwayId
       /\ r2.next_space_id <= MaxSpaceId + 1
       /\ spaces' = r2.spaces
       /\ next_space_id' = r2.next_space_id
       /\ space_ids_issued' = space_ids_issued
                                \o (IF r1.created THEN <<s1.id>> ELSE <<>>)
                                \o (IF r2.created THEN <<s2.id>> ELSE <<>>)
       /\ next_hallway_id' = next_hallway_id + 1
       /\ hallways' = Append(hallways, hallway)
       /\ hallway_ids_issued' = Append(hallway_ids_issued, hallway.id)
       /\ resp' = [op |-> "add_hallway", status |-> 200, hallway |-> hallway,
                   same_point |-> (x1 = x2 /\ y1 = y2),
                   created1 |-> r1.created, created2 |-> r2.created]
       /\ UNCHANGED <<threads, req, period_names, student_schedules>>

\* DELETE /spaces/<space_id> dropping only the hallways that start at the
\* space (line 627 without its to_space_id test).
delete_space_FromOnly(space_id) ==
    /\ spaces' = SelectSeq(spaces, LAMBDA s : s.id # space_id)
    /\ hallways' = SelectSeq(hallways, LAMBDA h : h.from_space_id # space_id)
    /\ resp' = [op |-> "delete_space", status |-> 200,
                deleted_space_id |-> space_id,
                before_spaces |-> Len(spaces),
                before_hallways |-> Len(hallways),
                remaining_spaces |-> Len(spaces'),
                remaining_hallways |-> Len(hallways')]
    /\ UNCHANGED <<threads, req, next_space_id, next_hallway_id, period_names, student_schedules,
                   space_ids_issued, hallway_ids_issued>>

\* DELETE /spaces/<space_id> without the filter of the hallways (lines
\* 625-628 left out).
delete_space_SpacesOnly(space_id) ==
    /\ spaces' = SelectSeq(spaces, LAMBDA s : s.id # space_id)
    /\ hallways' = hallways
    /\ resp' = [op |-> "delete_space", status |-> 200,
                deleted_space_id |-> space_id,
                before_spaces |-> Len(spaces),
                before_hallways |-> Len(hallways),
                remaining_spaces |-> Len(spaces'),
                remaining_hallways |-> Len(hallways')]
    /\ UNCHANGED <<threads, req, next_space_id, next_hallway_id, period_names, student_schedules,
                   space_ids_issued, hallway_ids_issued>>

\* DELETE /spaces/<space_id>
delete_space(space_id) ==
    /\ spaces' = SelectSeq(spaces, LAMBDA s : s.id # space_id)
    /\ hallways' = SelectSeq(hallways,
                     LAMBDA h : h.from_space_id # space_id /\ h.to_space_id # space_id)
    /\ resp' = [op |-> "delete_space", status |-> 200,
                deleted_space_id |-> space_id,
                before_spaces |-> Len(spaces),
                before_hallways |-> Len(hallways),
                remaining_spaces |-> Len(spaces'),
                remaining_hallways |-> Len(hallways')]
    /\ UNCHANGED <<threads, req, next_space_id, next_hallway_id, period_names, student_schedules,
                   space_ids_issued, hallway_ids_issued>>

\* POST /route
route(start_id, end_id) ==
    /\ resp' = RouteResponse(spaces, hallways, start_id, end_id)
    /\ UNCHANGED <<threads, req, spaces, hallways, next_space_id, next_hallway_id, period_names,
                   student_schedules, space_ids_issued, hallway_ids_issued>>

\* DELETE /hallways/<hallway_id>
delete_hallway(hallway_id) ==
    /\ hallways' = SelectSeq(hallways, LAMBDA h : h.id # hallway_id)
    /\ resp' = [op |-> "delete_hallway", status |-> 200,
                deleted_hallway_id |-> hallway_id,
                remaining_hallways |-> Len(hallways')]
    /\ UNCHANGED <<threads, req, spaces, next_space_id, next_hallway_id, period_names,
                   student_schedules, space_ids_issued, hallway_ids_issued>>

\* A direct call of dijkstra_shortest_path (as compute_congestion makes it).
shortest_path(start_id, end_id) ==
    /\ resp' = [op |-> "dijkstra", start_id |-> start_id, end_id |-> end_id,
                result |-> dijkstra_shortest_path(spaces, hallways, start_id, end_id)]
    /\ UNCHANGED <<threads, req, spaces, hallways, next_space_id, next_hallway_id, period_names,
                   student_schedules, space_ids_issued, hallway_ids_issued>>

Next ==
    \/ \E p \in Points : add_space("Classroom", p[1], p[2])
    \/ \E p, q \in Points : add_hallway(p[1], p[2], q[1], q[2])
    \/ \E d \in 1..MaxSpaceId : delete_space(d)
    \/ \E h \in 1..MaxHallwayId : delete_hallway(h)

Spec == Init /\ [][Next]_vars

\* ------------------------------------------------- maps for the route queries
\* Four classrooms A(0,0), B(4,0), C(8,0), D(4,3), as add_space leaves them.
Layout ==
    << [id |-> 1, type |-> "Classroom", x |-> 0, y |-> 0],
       [id |-> 2, type |-> "Classroom", x |-> 4, y |-> 0],
       [id |-> 3, type |-> "Classroom", x |-> 8, y |-> 0],
       [id |-> 4, type |-> "Classroom", x |-> 4, y |-> 3] >>

\* The endpoints a hallway of such a Map may join: every pair of the layout,
\* AB a second time (a parallel hallway) and B with itself (both endpoints
\* snapped to the same space).
CandidateHallways ==
    << <<1, 2>>, <<2, 3>>, <<1, 4>>, <<4, 3>>, <<1, 3>>, <<2, 4>>, <<1, 2>>, <<2, 2>> >>

\* Largest number of hallways of a Map the route queries run on.
MaxEdges == 4

\* The increasing sequence of the members of a set of numbers.
RECURSIVE SortedSeq(_)
SortedSeq(S) ==
    IF S = {} THEN <<>>
    ELSE LET m == CHOOSE a \in S : \A b \in S : a <= b
         IN <<m>> \o SortedSeq(S \ {m})

\* The hallways add_hallway leaves after joining the pairs picks[1], picks[2], ...
\* of the layout in that order.
HallwaysOf(picks) ==
    [k \in 1..Len(picks) |->
        LET s1 == Layout[CandidateHallways[picks[k]][1]]
            s2 == Layout[CandidateHallways[picks[k]][2]]
        IN [id |-> k, x1 |-> s1.x, y1 |-> s1.y, x2 |-> s2.x, y2 |-> s2.y,
            from_space_id |-> s1.id, to_space_id |-> s2.id]]

\* A Map with the first n spaces of the layout (a hallway to a space beyond
\* them is dangling, as after load_all_data of such a file) and the hallways
\* of a set of pairs, created in the order of CandidateHallways.
InitRoute ==
    /\ \E n \in (Len(Layout) - 1)..Len(Layout) :
         /\ spaces = SubSeq(Layout, 1, n)
         /\ next_space_id = Len(Layout) + 1
         /\ space_ids_issued = [i \in 1..Len(Layout) |-> i]
    /\ \E S \in SUBSET (1..Len(CandidateHallways)) :
         /\ Cardinality(S) <= MaxEdges
         /\ hallways = HallwaysOf(SortedSeq(S))
         /\ next_hallway_id = Cardinality(S) + 1
         /\ hallway_ids_issued = [i \in 1..Cardinality(S) |-> i]
    /\ period_names = <<>>
    /\ student_schedules = <<>>
    /\ req = [op |-> "none"]
    /\ threads = <<>>
    /\ resp = [op |-> "none"]

RouteIds == 1..(Len(Layout) + 1)

NextRoute ==
    \/ \E a, b \in RouteIds : route(a, b)
    \/ \E a, b \in RouteIds : shortest_path(a, b)

SpecRoute == InitRoute /\ [][NextRoute]_vars


\* --------------------------------------------------------------- congestion
\* The direction filter with its "any" branch testing the origin only
\* (line 851 without its s_to test).
PassesFilter_AnyFromOnly(s_from, s_to, filter_space_id, filter_direction) ==
    IF filter_space_id = None THEN TRUE
    ELSE IF filter_direction = "arriving" THEN s_to = filter_space_id
    ELSE IF filter_direction = "leaving" THEN s_from = filter_space_id
    ELSE s_from = filter_space_id

\* The direction filter of compute_congestion (lines 843-852): TRUE when the
\* pair s_from -> s_to is kept.
PassesFilter(s_from, s_to, filter_space_id, filter_direction) ==
    IF filter_space_id = None THEN TRUE
    ELSE IF filter_direction = "arriving" THEN s_to = filter_space_id
    ELSE IF filter_direction = "leaving" THEN s_from = filter_space_id
    ELSE s_from = filter_space_id \/ s_to = filter_space_id

\* counts[h_id] = 1 for every hallway of the path (line 860 without the
\* previous count).
RECURSIVE CountPath_NoAccumulate(_, _, _)
CountPath_NoAccumulate(counts, hallway_path, i) ==
    IF i > Len(hallway_path) THEN counts
    ELSE LET h_id == hallway_path[i]
         IN CountPath_NoAccumulate(IF h_id \in DOMAIN counts
                                   THEN [counts EXCEPT ![h_id] = 1]
                                   ELSE counts @@ (h_id :> 1),
                                   hallway_path, i + 1)

\* counts[h_id] = counts.get(h_id, 0) + 1 for every hallway of the path.
RECURSIVE CountPath(_, _, _)
CountPath(counts, hallway_path, i) ==
    IF i > Len(hallway_path) THEN counts
    ELSE LET h_id == hallway_path[i]
         IN CountPath(IF h_id \in DOMAIN counts
                      THEN [counts EXCEPT ![h_id] = @ + 1]
                      ELSE counts @@ (h_id :> 1),
                      hallway_path, i + 1)

\* The loop over p in range(from_index, to_index) for one student; acc holds
\* counts, total_trips, the (student, p) pairs counted and the number of
\* calls of the engine.
RECURSIVE PeriodLoop(_, _, _, _, _, _, _, _, _)
PeriodLoop(sp, hw, k, space_ids, p, to_index, filter_space_id, filter_direction, acc) ==
    IF p >= to_index THEN acc
    ELSE LET s_from == space_ids[p + 1]
             s_to == space_ids[p + 2]
         IN IF s_from = None \/ s_to = None \/ s_from = s_to
               \/ ~PassesFilter(s_from, s_to, filter_space_id, filter_direction)
            THEN PeriodLoop(sp, hw, k, space_ids, p + 1, to_index,
                            filter_space_id, filter_direction, acc)
            ELSE LET r == dijkstra_shortest_path(sp, hw, s_from, s_to)
                     called == [acc EXCEPT !.engine_calls = @ + 1]
                 IN IF ~r.found \/ r.hallway_path = <<>>
                    THEN PeriodLoop(sp, hw, k, space_ids, p + 1, to_index,
                                    filter_space_id, filter_direction, called)
                    ELSE PeriodLoop(sp, hw, k, space_ids, p + 1, to_index,
                                    filter_space_id, filter_direction,
                                    [counts |-> CountPath(acc.counts, r.hallway_path, 1),
                                     total_trips |-> acc.total_trips + 1,
                                     trips |-> acc.trips \cup {<<k, p>>},
                                     engine_calls |-> acc.engine_calls + 1])

\* The loop over student_schedules, from the k-th student on.
RECURSIVE StudentLoop(_, _, _, _, _, _, _, _, _)
StudentLoop(sp, hw, ss, k, from_index, to_index, filter_space_id, filter_direction, acc) ==
    IF k > Len(ss) THEN acc
    ELSE IF Len(ss[k].space_ids) <= to_index
    THEN StudentLoop(sp, hw, ss, k + 1, from_index, to_index,
                     filter_space_id, filter_direction, acc)
    ELSE StudentLoop(sp, hw, ss, k + 1, from_index, to_index,
                     filter_space_id, filter_direction,
                     PeriodLoop(sp, hw, k, ss[k].space_ids, from_index, to_index,
                                filter_space_id, filter_direction, acc))

EmptyCounts == [h \in {} |-> 0]

NoTrips == [counts |-> EmptyCounts, total_trips |-> 0, trips |-> {}, engine_calls |-> 0]

\* compute_congestion moving a negative from_index up to 0 instead of
\* returning the empty result (line 819 without its first test).
compute_congestion_ClampFrom(sp, hw, pn, ss, from_index, to_index, filter_space_id, filter_direction) ==
    LET from_clamped == IF from_index < 0 THEN 0 ELSE from_index
    IN IF pn = <<>> \/ ss = <<>> THEN NoTrips
       ELSE IF to_index <= from_clamped THEN NoTrips
       ELSE IF to_index >= Len(pn) THEN NoTrips
       ELSE StudentLoop(sp, hw, ss, 1, from_clamped, to_index,
                        filter_space_id, filter_direction, NoTrips)

compute_congestion(sp, hw, pn, ss, from_index, to_index, filter_space_id, filter_direction) ==
    IF pn = <<>> \/ ss = <<>> THEN NoTrips
    ELSE IF from_index < 0 \/ to_index <= from_index THEN NoTrips
    ELSE IF to_index >= Len(pn) THEN NoTrips
    ELSE StudentLoop(sp, hw, ss, 1, from_index, to_index,
                     filter_space_id, filter_direction, NoTrips)

\* str.lower on the direction values a request carries.
Lower(str) ==
    CASE str = "Leaving" -> "leaving"
      [] str = "ARRIVING" -> "arriving"
      [] OTHER -> str

SetMax(S) == CHOOSE a \in S : \A b \in S : a >= b

\* POST /congestion: the response to the request body r.
CongestionResponse(sp, hw, pn, ss, r) ==
    LET filter_direction ==
            IF Lower(r.filter_direction) \in {"any", "arriving", "leaving"}
            THEN Lower(r.filter_direction) ELSE "any"
    IN IF pn = <<>>
       THEN [op |-> "congestion", status |-> 400, message |-> "No schedule loaded"]
       ELSE IF r.from_period_index < 0 \/ r.to_period_index >= Len(pn)
               \/ r.to_period_index <= r.from_period_index
       THEN [op |-> "congestion", status |-> 400, message |-> "Invalid period index range"]
       ELSE LET c == compute_congestion(sp, hw, pn, ss, r.from_period_index,
                                        r.to_period_index, r.filter_space_id,
                                        filter_direction)
            IN [op |-> "congestion", status |-> 200,
                hallway_counts |-> c.counts,
                total_trips |-> c.total_trips,
                max_count |-> IF DOMAIN c.counts = {} THEN 0
                              ELSE SetMax({c.counts[h] : h \in DOMAIN c.counts})]

\* POST /congestion
congestion ==
    /\ req.op = "congestion"
    /\ resp' = CongestionResponse(spaces, hallways, period_names, student_schedules, req)
    /\ UNCHANGED <<threads, req, spaces, hallways, next_space_id, next_hallway_id, period_names,
                   student_schedules, space_ids_issued, hallway_ids_issued>>

\* ------------------------------------------- schedules and congestion requests
\* The period columns of the uploaded schedule, and most students in it.
PeriodNames == <<"P1", "P2", "P3">>
NumPeriods == Len(PeriodNames)
MaxStudents == 2

\* What a schedule holds for a student and a period: a space id, or None.
SpaceRefs == {None, 1, 2, 3}

\* The space_ids of a student: one entry per period, or one entry short.
Rows ==
    UNION {[1..n -> SpaceRefs] : n \in (NumPeriods - 1)..NumPeriods}

Schedules ==
    UNION {[1..n -> [student_id : {1}, space_ids : Rows]] : n \in 0..MaxStudents}

\* The request bodies: windows with from_period_index from -1 and
\* to_period_index up to len(period_names), no filter or a filter on space B.
Requests ==
    {[op |-> "congestion", from_period_index |-> f, to_period_index |-> t,
      filter_space_id |-> None, filter_direction |-> "any"] :
        f \in (-1)..(NumPeriods - 2), t \in 1..NumPeriods}
    \cup
    {[op |-> "congestion", from_period_index |-> f, to_period_index |-> t,
      filter_space_id |-> 2, filter_direction |-> d] :
        f \in (-1)..(NumPeriods - 2), t \in 1..NumPeriods,
        d \in {"any", "arriving", "Leaving", "sideways"}}

\* The chain A - B - C of the layout with hallways AB and BC, a schedule for
\* it (or none uploaded yet), and a request.
InitCongestion ==
    /\ spaces = SubSeq(Layout, 1, 3)
    /\ hallways = HallwaysOf(<<1, 2>>)
    /\ next_space_id = 4
    /\ next_hallway_id = 3
    /\ space_ids_issued = <<1, 2, 3>>
    /\ hallway_ids_issued = <<1, 2>>
    /\ \/ period_names = <<>> /\ student_schedules = <<>>
       \/ /\ period_names = PeriodNames
          /\ student_schedules \in Schedules
    /\ req \in Requests
    /\ threads = <<>>
    /\ resp = [op |-> "none"]

NextCongestion == congestion

SpecCongestion == InitCongestion /\ [][NextCongestion]_vars

\* ------------------------------------------ handlers on concurrent threads
\* The server answers each request on a thread of its own and the handlers
\* take no lock: the steps below are the reads and writes of the Map that
\* add_hallway (with the two calls of find_or_create_space_at), delete_space
\* and route make, one thread at a time taking one step.

NoHallway == [id |-> None, x1 |-> 0, y1 |-> 0, x2 |-> 0, y2 |-> 0,
              from_space_id |-> None, to_space_id |-> None]

\* The endpoint the current call of find_or_create_space_at is about.
Endpoint(th) == IF th.k = 1 THEN <<th.x1, th.y1>> ELSE <<th.x2, th.y2>>

\* find_or_create_space_at returns s: the first call is followed by the
\* second, the second by the construction of the hallway.
AfterSnap(th, s) ==
    IF th.k = 1
    THEN [th EXCEPT !.s1 = s, !.space = NoSpace, !.k = 2, !.pc = "scan"]
    ELSE [th EXCEPT !.s2 = s, !.space = NoSpace, !.pc = "hallway_new"]

OtherThanThreadsAndSpaces ==
    <<hallways, next_space_id, next_hallway_id, period_names, student_schedules,
      req, resp, space_ids_issued, hallway_ids_issued>>

\* find_or_create_space_at, lines 215 and 229-239: the test for an empty
\* Map, the scan and the comparison with the threshold.
snap_scan(t) ==
    /\ threads[t].op = "add_hallway"
    /\ threads[t].pc = "scan"
    /\ LET th == threads[t]
           p == Endpoint(th)
           best == NearestScan(spaces, p[1], p[2], 1, 0, 0)
       IN threads' = [threads EXCEPT ![t] =
                        IF spaces = <<>> \/ best.idx = 0
                           \/ Sqrt(best.d_sq) > Threshold * SqrtScale
                        THEN [th EXCEPT !.pc = "new"]
                        ELSE AfterSnap(th, spaces[best.idx])]
    /\ UNCHANGED <<spaces, OtherThanThreadsAndSpaces>>

\* lines 240-246: the new space, with the id read from next_space_id.
snap_new(t) ==
    /\ threads[t].op = "add_hallway"
    /\ threads[t].pc = "new"
    /\ LET th == threads[t]
           p == Endpoint(th)
       IN threads' = [threads EXCEPT ![t] =
                        [th EXCEPT !.space = NewIntersection(next_space_id, p[1], p[2]),
                                   !.pc = "inc"]]
    /\ UNCHANGED <<spaces, OtherThanThreadsAndSpaces>>

\* line 247: map_obj["next_space_id"] += 1
snap_inc(t) ==
    /\ threads[t].op = "add_hallway"
    /\ threads[t].pc = "inc"
    /\ next_space_id' = next_space_id + 1
    /\ threads' = [threads EXCEPT ![t].pc = "append"]
    /\ UNCHANGED <<spaces, hallways, next_hallway_id, period_names, student_schedules,
                   req, resp, space_ids_issued, hallway_ids_issued>>

\* lines 248-251: spaces.append(space) and the return of the new space.
snap_append(t) ==
    /\ threads[t].op = "add_hallway"
    /\ threads[t].pc = "append"
    /\ spaces' = Append(spaces, threads[t].space)
    /\ space_ids_issued' = Append(space_ids_issued, threads[t].space.id)
    /\ threads' = [threads EXCEPT ![t] = AfterSnap(threads[t], threads[t].space)]
    /\ UNCHANGED <<hallways, next_space_id, next_hallway_id, period_names,
                   student_schedules, req, resp, hallway_ids_issued>>

\* add_hallway, lines 693-702: the hallway, with the id read from
\* next_hallway_id.
hallway_new(t) ==
    /\ threads[t].op = "add_hallway"
    /\ threads[t].pc = "hallway_new"
    /\ LET th == threads[t]
       IN threads' = [threads EXCEPT ![t] =
                        [th EXCEPT !.hallway =
                                      [id |-> next_hallway_id,
                                       x1 |-> th.s1.x, y1 |-> th.s1.y,
                                       x2 |-> th.s2.x, y2 |-> th.s2.y,
                                       from_space_id |-> th.s1.id,
                                       to_space_id |-> th.s2.id],
                                   !.pc = "hallway_inc"]]
    /\ UNCHANGED <<spaces, OtherThanThreadsAndSpaces>>

\* line 703: map_obj["next_hallway_id"] += 1
hallway_inc(t) ==
    /\ threads[t].op = "add_hallway"
    /\ threads[t].pc = "hallway_inc"
    /\ next_hallway_id' = next_hallway_id + 1
    /\ threads' = [threads EXCEPT ![t].pc = "hallway_append"]
    /\ UNCHANGED <<spaces, hallways, next_space_id, period_names, student_schedules,
                   req, resp, space_ids_issued, hallway_ids_issued>>

\* lines 704-708: hallways.append(hallway) and the response.
hallway_append(t) ==
    /\ threads[t].op = "add_hallway"
    /\ threads[t].pc = "hallway_append"
    /\ hallways' = Append(hallways, threads[t].hallway)
    /\ hallway_ids_issued' = Append(hallway_ids_issued, threads[t].hallway.id)
    /\ resp' = [op |-> "add_hallway", status |-> 200, hallway |-> threads[t].hallway]
    /\ threads' = [threads EXCEPT ![t].pc = "done"]
    /\ UNCHANGED <<spaces, next_space_id, next_hallway_id, period_names,
                   student_schedules, req, space_ids_issued>>

\* delete_space, line 621: spaces[:] = [s for s in spaces if s["id"] != space_id]
delete_space_spaces(t) ==
    /\ threads[t].op = "delete_space"
    /\ threads[t].pc = "spaces"
    /\ spaces' = SelectSeq(spaces, LAMBDA s : s.id # threads[t].space_id)
    /\ threads' = [threads EXCEPT ![t].pc = "hallways",
                                  ![t].before_spaces = Len(spaces)]
    /\ UNCHANGED OtherThanThreadsAndSpaces

\* delete_space, lines 624-645: the filter of the hallways and the response.
delete_space_hallways(t) ==
    /\ threads[t].op = "delete_space"
    /\ threads[t].pc = "hallways"
    /\ hallways' = SelectSeq(hallways,
                     LAMBDA h : h.from_space_id # threads[t].space_id
                                /\ h.to_space_id # threads[t].space_id)
    /\ resp' = [op |-> "delete_space", status |-> 200,
                deleted_space_id |-> threads[t].space_id,
                before_spaces |-> threads[t].before_spaces,
                before_hallways |-> Len(hallways),
                remaining_spaces |-> Len(spaces),
                remaining_hallways |-> Len(hallways')]
    /\ threads' = [threads EXCEPT ![t].pc = "done"]
    /\ UNCHANGED <<spaces, next_space_id, next_hallway_id, period_names,
                   student_schedules, req, space_ids_issued, hallway_ids_issued>>

\* route, lines 772-781: the two lookups of get_space_by_id and the answer
\* for start_id == end_id.
route_check(t) ==
    /\ threads[t].op = "route"
    /\ threads[t].pc = "check"
    /\ LET th == threads[t]
       IN IF get_space_by_id(spaces, th.start_id) = NoSpace
             \/ get_space_by_id(spaces, th.end_id) = NoSpace
             \/ th.start_id = th.end_id
          THEN /\ resp' = RouteResponse(spaces, hallways, th.start_id, th.end_id)
               /\ threads' = [threads EXCEPT ![t].pc = "done"]
          ELSE /\ resp' = resp
               /\ threads' = [threads EXCEPT ![t].pc = "graph"]
    /\ UNCHANGED <<spaces, hallways, next_space_id, next_hallway_id, period_names,
                   student_schedules, req, space_ids_issued, hallway_ids_issued>>

\* route, lines 783-795: dijkstra_shortest_path, whose build_graph reads the
\* spaces and the hallways of the Map as they are now.
route_graph(t) ==
    /\ threads[t].op = "route"
    /\ threads[t].pc = "graph"
    /\ LET th == threads[t]
           path == dijkstra_shortest_path(spaces, hallways, th.start_id, th.end_id)
       IN /\ resp' = [op |-> "route", from_space_id |-> th.start_id,
                      to_space_id |-> th.end_id,
                      status |-> IF path.found THEN 200 ELSE 404,
                      space_ids |-> path.space_path,
                      hallway_ids |-> path.hallway_path,
                      engine |-> TRUE]
          /\ threads' = [threads EXCEPT ![t].pc = "done",
                                        ![t].read_spaces = spaces,
                                        ![t].read_hallways = hallways]
    /\ UNCHANGED <<spaces, hallways, next_space_id, next_hallway_id, period_names,
                   student_schedules, req, space_ids_issued, hallway_ids_issued>>

\* Endpoints of the hallways requested: A itself and two points one grid
\* unit apart, both further than the threshold from A, B and C.
ThreadPoints == {<<0, 0>>, <<4, 5>>, <<5, 5>>}

\* The requests two threads may be serving at the same time.
ThreadRequests ==
    {[op |-> "add_hallway", pc |-> "scan", k |-> 1,
      x1 |-> p[1], y1 |-> p[2], x2 |-> q[1], y2 |-> q[2],
      space |-> NoSpace, s1 |-> NoSpace, s2 |-> NoSpace, hallway |-> NoHallway] :
        p, q \in ThreadPoints}
    \cup
    {[op |-> "delete_space", pc |-> "spaces", space_id |-> d, before_spaces |-> 0] :
        d \in {2, 3}}
    \cup
    {[op |-> "route", pc |-> "check", start_id |-> a, end_id |-> b,
      read_spaces |-> <<>>, read_hallways |-> <<>>] : a, b \in {1, 3}}

\* The chain A - B - C with hallways AB and BC, and two requests arriving.
InitThreads ==
    /\ spaces = SubSeq(Layout, 1, 3)
    /\ hallways = HallwaysOf(<<1, 2>>)
    /\ next_space_id = 4
    /\ next_hallway_id = 3
    /\ space_ids_issued = <<1, 2, 3>>
    /\ hallway_ids_issued = <<1, 2>>
    /\ period_names = <<>>
    /\ student_schedules = <<>>
    /\ req = [op |-> "none"]
    /\ resp = [op |-> "none"]
    /\ threads \in {<<a, b>> : a, b \in ThreadRequests}

NextThreads ==
    \E t \in DOMAIN threads :
        \/ snap_scan(t)
        \/ snap_new(t)
        \/ snap_inc(t)
        \/ snap_append(t)
        \/ hallway_new(t)
        \/ hallway_inc(t)
        \/ hallway_append(t)
        \/ delete_space_spaces(t)
        \/ delete_space_hallways(t)
        \/ route_check(t)
        \/ route_graph(t)

SpecThreads == InitThreads /\ [][NextThreads]_vars

\* ------------------------------------------------------------ claim helpers
Range(q) == {q[i] : i \in 1..Len(q)}

NoDuplicates(q) == \A i, j \in 1..Len(q) : i # j => q[i] # q[j]

HallwayIds(hw) == {hw[i].id : i \in 1..Len(hw)}

RefersTo(h, d) == h.from_space_id = d \/ h.to_space_id = d

Joins(h, a, b) ==
    \/ h.from_space_id = a /\ h.to_space_id = b
    \/ h.from_space_id = b /\ h.to_space_id = a

\* The hallways whose two endpoints are live spaces, as <<u, v, weight, id>>,
\* the weight taken from the coordinates of the two spaces.
LiveEdges(sp, hw) ==
    {<<h.from_space_id, h.to_space_id,
       LET s1 == CHOOSE s \in Range(sp) : s.id = h.from_space_id
           s2 == CHOOSE s \in Range(sp) : s.id = h.to_space_id
       IN Sqrt((s1.x - s2.x) * (s1.x - s2.x) + (s1.y - s2.y) * (s1.y - s2.y)),
       h.id>> :
     h \in {g \in Range(hw) : g.from_space_id \in SpaceIds(sp)
                              /\ g.to_space_id \in SpaceIds(sp)}}

\* The spaces a chain of hallways with live endpoints connects to the set R.
RECURSIVE ReachableFrom(_, _)
ReachableFrom(E, R) ==
    LET more == R \cup {e[2] : e \in {f \in E : f[1] \in R}}
                  \cup {e[1] : e \in {f \in E : f[2] \in R}}
    IN IF more = R THEN R ELSE ReachableFrom(E, more)

Connected(sp, hw, a, b) ==
    /\ a \in SpaceIds(sp)
    /\ b \in SpaceIds(sp)
    /\ b \in ReachableFrom(LiveEdges(sp, hw), {a})

SetMin(S) == CHOOSE a \in S : \A b \in S : a <= b

\* Least cumulative weight of a path from a, by rounds of Bellman-Ford.
RECURSIVE BellmanFord(_, _, _, _)
BellmanFord(E, V, d, rounds) ==
    IF rounds = 0 THEN d
    ELSE BellmanFord(E, V,
           [v \in V |-> SetMin({d[v]}
                          \cup {d[e[1]] + e[3] : e \in {f \in E : f[2] = v /\ d[f[1]] < inf}}
                          \cup {d[e[2]] + e[3] : e \in {f \in E : f[1] = v /\ d[f[2]] < inf}})],
           rounds - 1)

MinWeight(sp, hw, a, b) ==
    BellmanFord(LiveEdges(sp, hw), SpaceIds(sp),
                [v \in SpaceIds(sp) |-> IF v = a THEN 0 ELSE inf],
                Cardinality(SpaceIds(sp)))[b]

RECURSIVE SumWeights(_, _, _)
SumWeights(E, hallway_ids, i) ==
    IF i > Len(hallway_ids) THEN 0
    ELSE (CHOOSE e \in E : e[4] = hallway_ids[i])[3] + SumWeights(E, hallway_ids, i + 1)

\* Cumulative weight of a hallway path.
PathWeight(sp, hw, hallway_ids) == SumWeights(LiveEdges(sp, hw), hallway_ids, 1)

\* The hallway path runs along the space path, hallway i joining spaces i, i+1.
RunsAlong(hw, space_path, hallway_path) ==
    /\ Len(hallway_path) = Len(space_path) - 1
    /\ \A i \in 1..Len(hallway_path) :
         \E h \in Range(hw) : h.id = hallway_path[i]
                              /\ Joins(h, space_path[i], space_path[i + 1])

\* The Map is the chain a - b - c: three spaces, two hallways ab and bc.
IsChain(sp, hw, a, b, c) ==
    /\ Len(sp) = 3
    /\ SpaceIds(sp) = {a, b, c}
    /\ Cardinality({a, b, c}) = 3
    /\ Len(hw) = 2
    /\ \E i, j \in 1..2 : i # j /\ Joins(hw[i], a, b) /\ Joins(hw[j], b, c)

\* ------------------------------------------------------------------- claims

\* C1: no space id and no hallway id is ever handed out twice in a Map, and
\* the live spaces and hallways carry pairwise distinct ids that were handed
\* out; so an id freed by a deletion is never handed out again.
C1_IdsNeverReused ==
    /\ NoDuplicates(space_ids_issued)
    /\ NoDuplicates(hallway_ids_issued)
    /\ NoDuplicates([i \in 1..Len(spaces) |-> spaces[i].id])
    /\ NoDuplicates([i \in 1..Len(hallways) |-> hallways[i].id])
    /\ SpaceIds(spaces) \subseteq Range(space_ids_issued)
    /\ HallwayIds(hallways) \subseteq Range(hallway_ids_issued)

\* Hallway 2 was just created after hallway 1 had been deleted, and its
\* Snapper created space 3 after space 1 or 2 had been deleted.
C1_Witness ==
    /\ resp.op = "add_hallway"
    /\ resp.hallway.id = 2
    /\ 1 \notin HallwayIds(hallways)
    /\ resp.created2
    /\ resp.hallway.to_space_id = 3
    /\ space_ids_issued = <<1, 2, 3>>
    /\ SpaceIds(spaces) # {1, 2, 3}

\* C2: a delete_space(d) step leaves no space with id d and no hallway with
\* an endpoint d, keeps every hallway that had d at neither endpoint, and on
\* the chain a - b - c deleting b removes both hallways and makes route(a, c)
\* report that no route was found.
C2_DeleteCascades ==
    [][\A d \in 1..MaxSpaceId :
         (resp'.op = "delete_space" /\ resp'.deleted_space_id = d) =>
            /\ d \notin SpaceIds(spaces')
            /\ \A h \in Range(hallways') : ~RefersTo(h, d)
            /\ \A h \in Range(hallways) : ~RefersTo(h, d) => h \in Range(hallways')
            /\ \A s \in Range(spaces) : s.id # d => s \in Range(spaces')
            /\ \A a, c \in SpaceIds(spaces) :
                 IsChain(spaces, hallways, a, d, c) =>
                    /\ hallways' = <<>>
                    /\ RouteResponse(spaces', hallways', a, c).status = 404]_vars

\* The middle space of a chain was just deleted: three spaces and two
\* hallways before, two spaces and no hallway after, and no route between
\* the two spaces left.
C2_Witness ==
    /\ resp.op = "delete_space"
    /\ resp.before_spaces = 3
    /\ resp.before_hallways = 2
    /\ resp.remaining_spaces = 2
    /\ resp.remaining_hallways = 0
    /\ Len(spaces) = 2
    /\ RouteResponse(spaces, hallways, spaces[1].id, spaces[2].id).status = 404

\* C3: for distinct spaces joined by a chain of hallways, the engine returns
\* a space path from start to end, its hallway path runs along it, and the
\* cumulative weight is the least over all paths; on the chain A - B - C it
\* returns the space path [A, B, C] and the hallway path [AB, BC].
C3_ShortestPathOptimal ==
    (resp.op = "dijkstra" /\ resp.start_id # resp.end_id
       /\ Connected(spaces, hallways, resp.start_id, resp.end_id)) =>
        /\ resp.result.found
        /\ resp.result.space_path[1] = resp.start_id
        /\ resp.result.space_path[Len(resp.result.space_path)] = resp.end_id
        /\ RunsAlong(hallways, resp.result.space_path, resp.result.hallway_path)
        /\ PathWeight(spaces, hallways, resp.result.hallway_path)
             = MinWeight(spaces, hallways, resp.start_id, resp.end_id)
        /\ (IsChain(spaces, hallways, 1, 2, 3) /\ resp.start_id = 1 /\ resp.end_id = 3
              /\ Joins(hallways[1], 1, 2)) =>
             /\ resp.result.space_path = <<1, 2, 3>>
             /\ resp.result.hallway_path = <<1, 2>>

\* The engine chose A - B - C (weight 8) over A - D - C (weight 10) on the
\* Map with the four hallways AB, BC, AD, DC.
C3_Witness ==
    /\ resp.op = "dijkstra"
    /\ resp.start_id = 1
    /\ resp.end_id = 3
    /\ Len(spaces) = 4
    /\ Len(hallways) = 4
    /\ \E i, j, k, l \in 1..4 :
         /\ Joins(hallways[i], 1, 2) /\ Joins(hallways[j], 2, 3)
         /\ Joins(hallways[k], 1, 4) /\ Joins(hallways[l], 4, 3)
    /\ resp.result.space_path = <<1, 2, 3>>

\* C4: the engine returns (None, None) exactly when start or end is not a
\* live space or no chain of hallways with live endpoints joins them.
C4_UnreachableExactly ==
    resp.op = "dijkstra" =>
        (~resp.result.found <=>
            \/ resp.start_id \notin SpaceIds(spaces)
            \/ resp.end_id \notin SpaceIds(spaces)
            \/ ~Connected(spaces, hallways, resp.start_id, resp.end_id))

\* A and C are live and every hallway at them leads to space 4, which is not
\* live: the engine reports them unreachable.
C4_Witness ==
    /\ resp.op = "dijkstra"
    /\ resp.start_id = 1
    /\ resp.end_id = 3
    /\ 4 \notin SpaceIds(spaces)
    /\ Len(hallways) = 2
    /\ Joins(hallways[1], 1, 4)
    /\ Joins(hallways[2], 4, 3)
    /\ ~resp.result.found

\* C5: route(s, s) for a space s of the Map answers with the space path [s]
\* and an empty hallway path, without a call of the engine.
C5_RouteToSelf ==
    (resp.op = "route" /\ resp.from_space_id = resp.to_space_id
       /\ resp.from_space_id \in SpaceIds(spaces)) =>
        /\ resp.status = 200
        /\ resp.space_ids = <<resp.from_space_id>>
        /\ resp.hallway_ids = <<>>
        /\ ~resp.engine

\* route(B, B) was answered on a Map where B has hallways, one of them from
\* B to B itself.
C5_Witness ==
    /\ resp.op = "route"
    /\ resp.from_space_id = 2
    /\ resp.to_space_id = 2
    /\ resp.status = 200
    /\ \E h \in Range(hallways) : Joins(h, 2, 2)
    /\ \E h \in Range(hallways) : Joins(h, 1, 2)

\* C6: when route(a, b) returns a path, route(b, a) returns a path of the
\* same total weight.
C6_RouteSymmetric ==
    (resp.op = "route" /\ resp.status = 200) =>
        LET back == RouteResponse(spaces, hallways, resp.to_space_id, resp.from_space_id)
        IN /\ back.status = 200
           /\ PathWeight(spaces, hallways, back.hallway_ids)
                = PathWeight(spaces, hallways, resp.hallway_ids)

\* route(A, D) returned a path of two hallways or more.
C6_Witness ==
    /\ resp.op = "route"
    /\ resp.status = 200
    /\ resp.from_space_id = 1
    /\ resp.to_space_id = 4
    /\ Len(resp.hallway_ids) >= 2

\* C10: from every Map and for every point, the Snapper called twice with the
\* same point and threshold returns the same space, and the second call
\* changes neither the spaces nor next_space_id; so a hallway whose two
\* endpoints are the same point joins a space to itself.
C10_SnapperIdempotent ==
    /\ \A p \in Points :
         LET r1 == find_or_create_space_at(spaces, next_space_id, p[1], p[2], Threshold)
             r2 == find_or_create_space_at(r1.spaces, r1.next_space_id, p[1], p[2],
                                           Threshold)
         IN /\ r2.space = r1.space
            /\ r2.spaces = r1.spaces
            /\ r2.next_space_id = r1.next_space_id
    /\ (resp.op = "add_hallway" /\ resp.same_point) =>
          resp.hallway.from_space_id = resp.hallway.to_space_id

\* The first hallway of an empty Map had both endpoints at one point: the
\* first call created space 1 and the second returned it.
C10_Witness ==
    /\ resp.op = "add_hallway"
    /\ resp.same_point
    /\ resp.created1
    /\ ~resp.created2
    /\ space_ids_issued = <<1>>
    /\ hallway_ids_issued = <<1>>
    /\ Len(spaces) = 1
    /\ resp.hallway.from_space_id = 1
    /\ resp.hallway.to_space_id = 1

\* The direction compute_congestion is called with for the request in flight.
ReqDirection ==
    IF Lower(req.filter_direction) \in {"any", "arriving", "leaving"}
    THEN Lower(req.filter_direction) ELSE "any"

\* compute_congestion on the Map and schedule of the state.
Aggregate(from_index, to_index, filter_space_id, filter_direction) ==
    compute_congestion(spaces, hallways, period_names, student_schedules,
                       from_index, to_index, filter_space_id, filter_direction)

\* The scenario of two students: student 1 at [A, B, C], student 2 at
\* [A, A, C], and the request congestion(0, 2) without a filter, answered.
TwoStudentScenario ==
    /\ Len(student_schedules) = 2
    /\ student_schedules[1].space_ids = <<1, 2, 3>>
    /\ student_schedules[2].space_ids = <<1, 1, 3>>
    /\ req.from_period_index = 0
    /\ req.to_period_index = 2
    /\ req.filter_space_id = None
    /\ resp.op = "congestion"

\* C7 as stated: in the two-student scenario congestion(0, 2) reports hallway
\* AB with count 1, hallway BC with count 2 and totalTrips 3.
C7_AsStated ==
    TwoStudentScenario =>
        /\ resp.status = 200
        /\ resp.hallway_counts = (1 :> 1) @@ (2 :> 2)
        /\ resp.total_trips = 3

\* C7 amended: in the two-student scenario congestion(0, 2) reports hallway
\* AB with count 2 (A -> B of student 1 and A -> C of student 2, whose path
\* is AB, BC), hallway BC with count 2 and totalTrips 3.
C7_TwoStudentCounts ==
    TwoStudentScenario =>
        /\ resp.status = 200
        /\ resp.hallway_counts = (1 :> 2) @@ (2 :> 2)
        /\ resp.total_trips = 3
        /\ resp.max_count = 2

C7_Witness ==
    /\ TwoStudentScenario
    /\ resp.status = 200
    /\ resp.total_trips = 3

C9_AnyIsUnionOfDirections ==
    (resp.op = "congestion" /\ resp.status = 200 /\ req.filter_space_id # None) =>
        LET any == Aggregate(req.from_period_index, req.to_period_index,
                             req.filter_space_id, "any")
            leaving == Aggregate(req.from_period_index, req.to_period_index,
                                 req.filter_space_id, "leaving")
            arriving == Aggregate(req.from_period_index, req.to_period_index,
                                  req.filter_space_id, "arriving")
            other == Aggregate(req.from_period_index, req.to_period_index,
                               req.filter_space_id, "sideways")
        IN /\ any.trips = leaving.trips \cup arriving.trips
           /\ any.total_trips = Cardinality(leaving.trips \cup arriving.trips)
           /\ leaving.total_trips = Cardinality(leaving.trips)
           /\ arriving.total_trips = Cardinality(arriving.trips)
           /\ other = any
           /\ req.filter_direction \in {"any", "sideways"} =>
                 /\ resp.total_trips = any.total_trips
                 /\ resp.hallway_counts = any.counts

\* A request with the unrecognized direction "sideways" and the filter on B
\* was answered for a student who goes A -> B -> A: one transition arrives
\* at B, the other leaves it, and both are counted.
C9_Witness ==
    /\ resp.op = "congestion"
    /\ resp.status = 200
    /\ req.filter_space_id = 2
    /\ req.filter_direction = "sideways"
    /\ req.from_period_index = 0
    /\ req.to_period_index = 2
    /\ Len(student_schedules) = 1
    /\ student_schedules[1].space_ids = <<1, 2, 1>>
    /\ resp.total_trips = 2

\* Points the Snapper is asked about: those of the requests, a point at the
\* same distance (inside the threshold) from <<0, 0>> and <<4, 2>>, and a
\* point far from all of them.
SnapQueries == Points \cup {<<2, 1>>, <<7, 2>>}

DistSq(s, x, y) == (s.x - x) * (s.x - x) + (s.y - y) * (s.y - y)

\* C11: on a non-empty Map the Snapper returns the first space, in insertion
\* order, among those at the least distance from (x, y) when that distance is
\* at most the threshold, and changes nothing; otherwise it appends exactly
\* one Intersection at (x, y) with id next_space_id and adds one to
\* next_space_id.
C11_SnapOrCreate ==
    spaces # <<>> =>
      \A p \in SnapQueries :
        LET r == find_or_create_space_at(spaces, next_space_id, p[1], p[2], Threshold)
            least == SetMin({DistSq(spaces[i], p[1], p[2]) : i \in 1..Len(spaces)})
            first == CHOOSE i \in 1..Len(spaces) :
                        /\ DistSq(spaces[i], p[1], p[2]) = least
                        /\ \A j \in 1..(i - 1) : DistSq(spaces[j], p[1], p[2]) # least
        IN IF least <= Threshold * Threshold
           THEN /\ r.space = spaces[first]
                /\ r.spaces = spaces
                /\ r.next_space_id = next_space_id
           ELSE /\ r.spaces = Append(spaces, [id |-> next_space_id,
                                              type |-> "Intersection",
                                              x |-> p[1], y |-> p[2]])
                /\ r.space = r.spaces[Len(r.spaces)]
                /\ r.next_space_id = next_space_id + 1

\* A hallway between two different points whose endpoints both snapped to the
\* only space of the Map: one of them lay at exactly the threshold from it.
C11_Witness ==
    /\ resp.op = "add_hallway"
    /\ ~resp.same_point
    /\ ~resp.created1
    /\ ~resp.created2
    /\ Len(spaces) = 1
    /\ resp.hallway.from_space_id = spaces[1].id
    /\ resp.hallway.to_space_id = spaces[1].id

\* C15: whenever the engine returns a path for distinct start and end, the
\* hallway path is one shorter than the space path, its i-th hallway is a
\* hallway of the Map joining the i-th and (i+1)-th space of the space path,
\* and no space occurs twice on the space path; the same holds of the
\* space_ids and hallway_ids of a /route answer.
C15_PathsLineUp ==
    /\ (resp.op = "dijkstra" /\ resp.start_id # resp.end_id /\ resp.result.found) =>
          /\ Len(resp.result.hallway_path) = Len(resp.result.space_path) - 1
          /\ \A i \in 1..Len(resp.result.hallway_path) :
                \E k \in 1..Len(hallways) :
                    /\ hallways[k].id = resp.result.hallway_path[i]
                    /\ {hallways[k].from_space_id, hallways[k].to_space_id}
                         = {resp.result.space_path[i], resp.result.space_path[i + 1]}
          /\ NoDuplicates(resp.result.space_path)
    /\ (resp.op = "route" /\ resp.status = 200
          /\ resp.from_space_id # resp.to_space_id) =>
          /\ Len(resp.hallway_ids) = Len(resp.space_ids) - 1
          /\ \A i \in 1..Len(resp.hallway_ids) :
                \E k \in 1..Len(hallways) :
                    /\ hallways[k].id = resp.hallway_ids[i]
                    /\ {hallways[k].from_space_id, hallways[k].to_space_id}
                         = {resp.space_ids[i], resp.space_ids[i + 1]}
          /\ NoDuplicates(resp.space_ids)

\* A path over four spaces and three hallways was returned.
C15_Witness ==
    /\ resp.op = "dijkstra"
    /\ resp.start_id # resp.end_id
    /\ resp.result.found
    /\ Len(resp.result.space_path) = 4
    /\ Len(resp.result.hallway_path) = 3

\* Number of arcs of a graph over the space ids of S.
RECURSIVE ArcCount(_, _)
ArcCount(graph, S) ==
    IF S = {} THEN 0
    ELSE LET sid == CHOOSE a \in S : TRUE
         IN Len(graph[sid]) + ArcCount(graph, S \ {sid})

\* C16: in every Map reached from the empty Map by serialized add_space,
\* add_hallway, delete_space and delete_hallway, both endpoints of every
\* hallway are ids of spaces of the Map, so build_graph skips no hallway: the
\* graph has two arcs for each hallway.
C16_NoDanglingHallway ==
    /\ \A k \in 1..Len(hallways) :
          /\ get_space_by_id(spaces, hallways[k].from_space_id) # NoSpace
          /\ get_space_by_id(spaces, hallways[k].to_space_id) # NoSpace
    /\ ArcCount(build_graph(spaces, hallways), SpaceIds(spaces)) = 2 * Len(hallways)

\* A delete_space removed a space together with one of two hallways; the
\* other hallway is still in the Map.
C16_Witness ==
    /\ resp.op = "delete_space"
    /\ resp.before_spaces > resp.remaining_spaces
    /\ resp.before_hallways = 2
    /\ resp.remaining_hallways = 1
    /\ Len(hallways) = 1

\* C14: whenever the indices of the request do not satisfy
\* 0 <= from < to < len(period_names), compute_congestion returns no hallway
\* count and total_trips 0 and calls the engine not once; the /congestion
\* handler rejects such a request before it calls compute_congestion.
C14_InvalidWindowIsEmpty ==
    (resp.op = "congestion"
       /\ ~(0 <= req.from_period_index
            /\ req.from_period_index < req.to_period_index
            /\ req.to_period_index < Len(period_names))) =>
        /\ \A d \in {"any", "arriving", "leaving"} :
              LET c == Aggregate(req.from_period_index, req.to_period_index,
                                 req.filter_space_id, d)
              IN /\ DOMAIN c.counts = {}
                 /\ c.total_trips = 0
                 /\ c.engine_calls = 0
        /\ resp.status = 400

\* A request with from_period_index -1 and to_period_index 1 was answered on a
\* schedule whose first student walks from A to B after the first period.
C14_Witness ==
    /\ resp.op = "congestion"
    /\ resp.status = 400
    /\ req.from_period_index = -1
    /\ req.to_period_index = 1
    /\ period_names = PeriodNames
    /\ Len(student_schedules) >= 1
    /\ student_schedules[1].space_ids = <<1, 2, 3>>

\* C12 as stated: while two add_hallway requests run at the same time on one
\* Map, each with an endpoint at a near-identical point that matches no
\* space, the Map never holds two Intersections within the threshold of each
\* other, and never two spaces with the same id.
C12_NoNearDuplicateEndpoint ==
    (threads[1].op = "add_hallway" /\ threads[2].op = "add_hallway") =>
        \A i, j \in 1..Len(spaces) :
            i # j =>
              /\ spaces[i].id # spaces[j].id
              /\ (spaces[i].type = "Intersection" /\ spaces[j].type = "Intersection") =>
                    DistSq(spaces[i], spaces[j].x, spaces[j].y) > Threshold * Threshold

\* C13 as stated: while delete_space(d) and a route query run at the same
\* time on one Map, the Map the route query reads never lacks space d while
\* a hallway with an endpoint d is still among its hallways.
C13_RouteNeverReadsMidRemoval ==
    \A t, u \in DOMAIN threads :
        (threads[t].op = "route" /\ threads[t].pc = "done"
           /\ threads[u].op = "delete_space") =>
            ~(/\ threads[u].space_id \notin SpaceIds(threads[t].read_spaces)
              /\ \E k \in 1..Len(threads[t].read_hallways) :
                    RefersTo(threads[t].read_hallways[k], threads[u].space_id))
====
